---- MODULE Spec2Model ----
(***************************************************************************)
(* Model of lib/galaxy/datatypes/sniff.py: get_headers, is_column_based    *)
(* and guess_ext.                                                          *)
(*                                                                         *)
(* A character is its code point (Python 2 byte strings).  A file is the   *)
(* sequence of lines that iterating file(fname) yields: every line ends    *)
(* with "\n", except possibly the last one, and holds no other "\n".       *)
(* A detector is a record [file_ext, sniff]; sniff is what datatype.sniff  *)
(* does on the file under classification: return true, return false, or    *)
(* raise.                                                                  *)
(***************************************************************************)
EXTENDS Integers, Sequences, FiniteSets, TLC

VARIABLES
    file,          \* the lines of fname
    sniff_order,   \* guess_ext's sniff_order argument
    op,            \* the call in progress / last made: [name, sep, n]
    pc,            \* "idle", "sniff" (in the loop of guess_ext), "done"
    idx,           \* guess_ext: position of the loop over sniff_order
    probed,        \* guess_ext: positions whose sniff() was called, in call order
    headers,       \* return value of get_headers
    column_based,  \* return value of is_column_based
    ext            \* return value of guess_ext

vars == <<file, sniff_order, op, pc, idx, probed, headers, column_based, ext>>

----------------------------------------------------------------------------
(* Characters and program constants *)

TAB   == 9
LF    == 10
CR    == 13
SPACE == 32
HASH  == 35
\* sep=None of line.split(sep): split on runs of whitespace
None  == -1
\* get_headers' default count
DefaultCount == 60
\* the threshold of "ord(char) > 128"
BinaryThreshold == 128

\* what str.split(None) treats as whitespace on a Python 2 byte string
Whitespace == {9, 10, 11, 12, 13, 32}

\* guess_ext has not returned
NoResult == ""

----------------------------------------------------------------------------
(* Bounds of the model *)

MaxBytes     == 4   \* length of the files enumerated byte by byte
MaxLines     == 4   \* number of lines of the files enumerated line by line
MaxTail      == 2   \* lines that follow the first DefaultCount(+1) lines of a long file
MaxDetectors == 2   \* length of sniff_order
MaxSkip      == 2   \* is_column_based's skip
MaxCount     == 1   \* get_headers' count (besides DefaultCount)

----------------------------------------------------------------------------
(* Python's file iteration and string methods *)

\* where the line of byte string b that starts at s ends
LineEnd(b, s) ==
    IF \E i \in s..Len(b) : b[i] = LF
    THEN CHOOSE i \in s..Len(b) : b[i] = LF /\ \A j \in s..(i - 1) : b[j] # LF
    ELSE Len(b)

\* "for line in file(fname)" on a file of contents b: the pieces of b, each
\* ending with its "\n", the last one without when b does not end with "\n"
RECURSIVE LinesFrom(_, _)
LinesFrom(b, s) ==
    IF s > Len(b)
    THEN <<>>
    ELSE <<SubSeq(b, s, LineEnd(b, s))>> \o LinesFrom(b, LineEnd(b, s) + 1)

Lines(b) == LinesFrom(b, 1)

\* line.rstrip('\n\r')
RECURSIVE RStrip(_)
RStrip(line) ==
    IF line # <<>> /\ line[Len(line)] \in {LF, CR}
    THEN RStrip(SubSeq(line, 1, Len(line) - 1))
    ELSE line

\* line.split(sep) for a one-character sep: empty fields are kept
RECURSIVE SplitOn(_, _, _, _, _)
SplitOn(line, sep, i, cur, acc) ==
    IF i > Len(line)
    THEN Append(acc, cur)
    ELSE IF line[i] = sep
         THEN SplitOn(line, sep, i + 1, <<>>, Append(acc, cur))
         ELSE SplitOn(line, sep, i + 1, Append(cur, line[i]), acc)

\* line.split(None): the words between runs of whitespace, none of them empty
RECURSIVE SplitWhitespace(_, _, _, _)
SplitWhitespace(line, i, cur, acc) ==
    IF i > Len(line)
    THEN IF cur = <<>> THEN acc ELSE Append(acc, cur)
    ELSE IF line[i] \in Whitespace
         THEN SplitWhitespace(line, i + 1, <<>>,
                              IF cur = <<>> THEN acc ELSE Append(acc, cur))
         ELSE SplitWhitespace(line, i + 1, Append(cur, line[i]), acc)

Split(line, sep) ==
    IF sep = None
    THEN SplitWhitespace(line, 1, <<>>, <<>>)
    ELSE SplitOn(line, sep, 1, <<>>, <<>>)

----------------------------------------------------------------------------
(* get_headers *)

\* the loop leaving at "idx == count" before the append
LastIdxBreakEarly(f, count) ==
    IF \E i \in 0..(Len(f) - 1) : i = count THEN count - 1 ELSE Len(f) - 1

\* the last idx (Python's 0-based enumerate index) whose line the loop
\* appends: the first idx with "idx == count", or that of the last line
LastIdx(f, count) ==
    IF \E i \in 0..(Len(f) - 1) : i = count THEN count ELSE Len(f) - 1

\* headers at "return headers": one row per line of idx 0..LastIdx
GetHeaders(f, sep, count) ==
    [k \in 1..(LastIdx(f, count) + 1) |-> Split(RStrip(f[k]), sep)]

----------------------------------------------------------------------------
(* is_column_based *)

\* headers[skip:]
Slice(hs, skip) == SubSeq(hs, skip + 1, Len(hs))

\* "hdr and hdr[0] and not hdr[0].startswith('#')"
Qualifies(hdr) == hdr # <<>> /\ hdr[1] # <<>> /\ hdr[1][1] # HASH

\* the row at which the first loop breaks (0: the loop runs to its end)
BreakRow(rows) ==
    IF \E i \in 1..Len(rows) : Qualifies(rows[i])
    THEN CHOOSE i \in 1..Len(rows) :
            Qualifies(rows[i]) /\ \A j \in 1..(i - 1) : ~Qualifies(rows[j])
    ELSE 0

\* the first loop with "len(hdr) > 2" for "len(hdr) > 1"
FirstCountOverTwo(rows) ==
    IF BreakRow(rows) # 0 /\ Len(rows[BreakRow(rows)]) > 2
    THEN Len(rows[BreakRow(rows)])
    ELSE 0

\* count after the first loop: the length of the row it breaks at if that
\* is more than 1, else the initial 0
FirstCount(rows) ==
    IF BreakRow(rows) # 0 /\ Len(rows[BreakRow(rows)]) > 1
    THEN Len(rows[BreakRow(rows)])
    ELSE 0

\* the second loop comparing every row, qualifying or not
SameCountAllRows(rows, count) ==
    ~ \E i \in 1..Len(rows) : Len(rows[i]) # count

\* the second loop with "len(hdr) < count" for "len(hdr) != count"
SameCountLess(rows, count) ==
    ~ \E i \in 1..Len(rows) : Qualifies(rows[i]) /\ Len(rows[i]) < count

\* the second loop: TRUE unless some row makes it "return False"
SameCount(rows, count) ==
    ~ \E i \in 1..Len(rows) : Qualifies(rows[i]) /\ Len(rows[i]) # count

IsColumnBased(f, sep, skip) ==
    LET hs    == GetHeaders(f, sep, DefaultCount)
        rows  == Slice(hs, skip)
        count == FirstCount(rows)
    IN  IF hs = <<>> THEN FALSE
        ELSE IF count < 2 THEN FALSE
        ELSE SameCount(rows, count)

----------------------------------------------------------------------------
(* guess_ext: the fallback classification *)

\* ord(char) raises TypeError unless char is a string of length 1
OrdRaises(char) == Len(char) # 1

\* the inner loop with "except: pass"
RECURSIVE ScanRowRaiseKeeps(_, _, _)
ScanRowRaiseKeeps(hdr, i, is_binary) ==
    IF i > Len(hdr)
    THEN is_binary
    ELSE IF OrdRaises(hdr[i])
         THEN ScanRowRaiseKeeps(hdr, i + 1, is_binary)
         ELSE ScanRowRaiseKeeps(hdr, i + 1,
                  IF ~(hdr[i][1] > BinaryThreshold) THEN FALSE ELSE is_binary)

\* the inner loop "for char in hdr" from position i: the value of is_binary
\* when the loop is left (by exhaustion or by break)
RECURSIVE ScanRow(_, _, _)
ScanRow(hdr, i, is_binary) ==
    IF i > Len(hdr)
    THEN is_binary
    ELSE IF OrdRaises(hdr[i])
         THEN FALSE
         ELSE ScanRow(hdr, i + 1,
                  IF ~(hdr[i][1] > BinaryThreshold) THEN FALSE ELSE is_binary)

\* the outer loop "for hdr in headers": is_binary is only ever assigned
\* False, so it is False after the loop when the scan of some row assigns
\* False, and else what it was before
ScanHeaders(hs, is_binary) ==
    IF \E r \in 1..Len(hs) : ~ScanRow(hs[r], 1, TRUE) THEN FALSE ELSE is_binary

\* the scan with "is_binary = False" at its start
IsBinaryStartsFalse(f) == ScanHeaders(GetHeaders(f, None, DefaultCount), FALSE)

\* is_binary at "if is_binary:"
IsBinary(f) == ScanHeaders(GetHeaders(f, None, DefaultCount), TRUE)

\* the fallback without its last "return 'txt'"
FallbackExtNoDefault(f) ==
    IF IsBinary(f) THEN "data"
    ELSE IF IsColumnBased(f, TAB, 1) THEN "tabular"
    ELSE NoResult

\* what guess_ext returns once the loop over sniff_order has ended
FallbackExt(f) ==
    IF IsBinary(f) THEN "data"
    ELSE IF IsColumnBased(f, TAB, 1) THEN "tabular"
    ELSE "txt"

----------------------------------------------------------------------------
(* guess_ext as a function of the file and of what each detector does *)

RECURSIVE SniffLoop(_, _, _)
SniffLoop(f, order, i) ==
    IF i > Len(order)
    THEN FallbackExt(f)
    ELSE IF order[i].sniff = "true"
         THEN order[i].file_ext
         ELSE SniffLoop(f, order, i + 1)

GuessExt(f, order) == SniffLoop(f, order, 1)

----------------------------------------------------------------------------
(* The inputs *)

Exts      == {"bed", "gff"}
Outcomes  == {"true", "false", "raise"}
Detectors == [file_ext : Exts, sniff : Outcomes]

SeqsUpTo(S, n) == UNION {[1..k -> S] : k \in 0..n}

Orders == SeqsUpTo(Detectors, MaxDetectors)

\* orders in which no detector matches, for the files enumerated in bulk
NoMatchOrders ==
    { <<>>,
      <<[file_ext |-> "bed", sniff |-> "raise"], [file_ext |-> "gff", sniff |-> "false"]>> }

\* files enumerated byte by byte
ByteAlphabet == {TAB, LF, CR, SPACE, HASH, 97, 128, 129}
ByteFiles    == { Lines(b) : b \in SeqsUpTo(ByteAlphabet, MaxBytes) }

\* files enumerated line by line: every line ends with "\n", or every line
\* but the last does
WithLF(ls)     == [i \in DOMAIN ls |-> Append(ls[i], LF)]
WithoutLast(f) == [f EXCEPT ![Len(f)] = SubSeq(f[Len(f)], 1, Len(f[Len(f)]) - 1)]
FilesOfLines(L, n) ==
    LET terminated == { WithLF(ls) : ls \in SeqsUpTo(L, n) }
    IN  terminated
          \cup { WithoutLast(f) : f \in {g \in terminated : g # <<>> /\ g[Len(g)] # <<LF>>} }

TabLines ==
    { <<97, TAB, 97>>, <<97, TAB, 97, TAB, 97>>, <<HASH, TAB, 97>>,
      <<TAB, 97>>, <<>>, <<129, TAB, 129>> }
SpaceLines ==
    { <<97, SPACE, 97>>, <<97, SPACE, 97, SPACE, 97>>, <<HASH, SPACE, 97>>,
      <<97, SPACE, SPACE, 97>>, <<97>> }

TabFiles   == FilesOfLines(TabLines, MaxLines)
SpaceFiles == FilesOfLines(SpaceLines, MaxLines)

\* files of more lines than get_headers reads with its default count
LongBases == { <<97, TAB, 97, LF>>, <<129, LF>> }
LongTails == { <<97, TAB, 97, LF>>, <<97, LF>>, <<97, TAB, 97, TAB, 97, LF>> }
LongFiles ==
    { [i \in 1..n |-> b] \o t :
        b \in LongBases, n \in {DefaultCount, DefaultCount + 1},
        t \in SeqsUpTo(LongTails, MaxTail) }

\* the files every sniff_order is tried on
ChainFiles ==
    { <<>>, <<<<97>>>>, <<<<129>>>>, <<<<97, TAB, 97, LF>>, <<97, TAB, 97, LF>>>> }

Files == ByteFiles \cup TabFiles \cup SpaceFiles \cup LongFiles \cup ChainFiles

OrdersFor(f) == IF f \in ChainFiles THEN Orders ELSE NoMatchOrders

Seps   == {TAB, SPACE, None}
Counts == (0..MaxCount) \cup {DefaultCount}
Skips  == 0..MaxSkip

NoOp == [name |-> "none", sep |-> None, n |-> 0]

----------------------------------------------------------------------------
(* The state machine *)

InitWith(F) ==
    /\ file \in F
    /\ sniff_order = <<>>
    /\ op = NoOp
    /\ pc = "idle"
    /\ idx = 0
    /\ probed = <<>>
    /\ headers = <<>>
    /\ column_based = FALSE
    /\ ext = NoResult

Init == InitWith(Files)

\* get_headers(fname, sep, count)
GetHeadersCall ==
    /\ pc = "idle"
    /\ \E sep \in Seps, count \in Counts :
        /\ op' = [name |-> "get_headers", sep |-> sep, n |-> count]
        /\ headers' = GetHeaders(file, sep, count)
    /\ pc' = "done"
    /\ UNCHANGED <<file, sniff_order, idx, probed, column_based, ext>>

\* is_column_based(fname, sep, skip)
IsColumnBasedCall ==
    /\ pc = "idle"
    /\ \E sep \in Seps, skip \in Skips :
        /\ op' = [name |-> "is_column_based", sep |-> sep, n |-> skip]
        /\ column_based' = IsColumnBased(file, sep, skip)
    /\ pc' = "done"
    /\ UNCHANGED <<file, sniff_order, idx, probed, headers, ext>>

\* guess_ext(fname, sniff_order): entry
GuessExtCall ==
    /\ pc = "idle"
    /\ \E order \in OrdersFor(file) : sniff_order' = order
    /\ op' = [name |-> "guess_ext", sep |-> None, n |-> 0]
    /\ pc' = "sniff"
    /\ idx' = 1
    /\ UNCHANGED <<file, probed, headers, column_based, ext>>

\* one iteration of "for datatype in sniff_order" in which a match does not
\* return: the extension is kept and the loop goes on
SniffNextNoReturn ==
    /\ pc = "sniff"
    /\ idx <= Len(sniff_order)
    /\ probed' = Append(probed, idx)
    /\ idx' = idx + 1
    /\ ext' = IF sniff_order[idx].sniff = "true"
              THEN sniff_order[idx].file_ext ELSE ext
    /\ pc' = IF idx = Len(sniff_order) /\ ext' # NoResult THEN "done" ELSE "sniff"
    /\ UNCHANGED <<file, sniff_order, op, headers, column_based>>

\* one iteration in which an exception of sniff() is not caught: guess_ext
\* ends without a return value
SniffNextRaisePropagates ==
    /\ pc = "sniff"
    /\ idx <= Len(sniff_order)
    /\ probed' = Append(probed, idx)
    /\ \/ /\ sniff_order[idx].sniff = "true"
          /\ ext' = sniff_order[idx].file_ext
          /\ pc' = "done"
          /\ idx' = idx
       \/ /\ sniff_order[idx].sniff = "false"
          /\ idx' = idx + 1
          /\ UNCHANGED <<ext, pc>>
       \/ /\ sniff_order[idx].sniff = "raise"
          /\ pc' = "done"
          /\ UNCHANGED <<ext, idx>>
    /\ UNCHANGED <<file, sniff_order, op, headers, column_based>>

\* one iteration of "for datatype in sniff_order"
SniffNext ==
    /\ pc = "sniff"
    /\ idx <= Len(sniff_order)
    /\ probed' = Append(probed, idx)
    /\ \/ /\ sniff_order[idx].sniff = "true"
          /\ ext' = sniff_order[idx].file_ext
          /\ pc' = "done"
          /\ idx' = idx
       \/ /\ sniff_order[idx].sniff \in {"false", "raise"}
          /\ idx' = idx + 1
          /\ UNCHANGED <<ext, pc>>
    /\ UNCHANGED <<file, sniff_order, op, headers, column_based>>

\* the loop has ended without a return: the fallback classification
Fallback ==
    /\ pc = "sniff"
    /\ idx > Len(sniff_order)
    /\ ext' = FallbackExt(file)
    /\ pc' = "done"
    /\ UNCHANGED <<file, sniff_order, op, idx, probed, headers, column_based>>

Next == GetHeadersCall \/ IsColumnBasedCall \/ GuessExtCall \/ SniffNext \/ Fallback

Spec == Init /\ [][Next]_vars

\* the calls on the files every sniff_order is tried on; a call that has
\* started runs on (the program is sequential and nothing blocks it)
LiveSpec == InitWith(ChainFiles) /\ [][Next]_vars /\ WF_vars(Next)

----------------------------------------------------------------------------
(* Vocabulary of the properties *)

Min(a, b) == IF a <= b THEN a ELSE b
Least(S)  == CHOOSE x \in S : \A y \in S : x <= y

GuessDone   == pc = "done" /\ op.name = "guess_ext"
NoMatch     == \A i \in DOMAIN sniff_order : sniff_order[i].sniff # "true"
Matching    == {i \in DOMAIN sniff_order : sniff_order[i].sniff = "true"}

\* every line of f, stripped of trailing "\n"/"\r" and split on sep
Rows(f, sep) == [k \in 1..Len(f) |-> Split(RStrip(f[k]), sep)]
\* the rows of the first DefaultCount + 1 lines
BlockRows(f, sep) ==
    LET rs == Rows(f, sep)
    IN  SubSeq(rs, 1, Min(Len(rs), DefaultCount + 1))
\* the first DefaultCount + 1 lines, each as the flat sequence of its characters
FlatRows(f) == [k \in 1..Min(Len(f), DefaultCount + 1) |-> RStrip(f[k])]

\* f cut after its k-th line
FirstLines(f, k) == SubSeq(f, 1, Min(k, Len(f)))

\* the words of a row that the binary scan inspects: all of them up to and
\* including the first one on which ord() raises
Inspected(hdr) ==
    LET r == {i \in 1..Len(hdr) : OrdRaises(hdr[i])}
    IN  IF r = {} THEN hdr ELSE SubSeq(hdr, 1, Least(r))

SomeInspectedRaises(f) ==
    LET rs == BlockRows(f, None)
    IN  \E k \in DOMAIN rs :
            \E i \in DOMAIN Inspected(rs[k]) : OrdRaises(Inspected(rs[k])[i])

\* every word of the sample is one character of code point > 128
AllWordsHigh(f) ==
    LET rs == BlockRows(f, None)
    IN  \A k \in DOMAIN rs :
            \A i \in DOMAIN rs[k] : Len(rs[k][i]) = 1 /\ rs[k][i][1] > BinaryThreshold

\* the rows of a header block left after skip that qualify
QualifyingRows(hs, skip) ==
    LET rows == Slice(hs, skip)
    IN  {i \in 1..Len(rows) : Qualifies(rows[i])}

----------------------------------------------------------------------------
(* C1 *)

\* C1: guess_ext calls sniff on the detectors in the order of sniff_order,
\* none of the detectors probed before the last one matched, and when some
\* detector matches, guess_ext returns the file_ext of the first matching
\* one, having probed no detector after it.
C1_FirstMatchWins ==
    /\ probed = [i \in 1..Len(probed) |-> i]
    /\ Len(probed) <= Len(sniff_order)
    /\ \A i \in 1..(Len(probed) - 1) : sniff_order[i].sniff # "true"
    /\ (GuessDone /\ Matching # {}) =>
          /\ ext = sniff_order[Least(Matching)].file_ext
          /\ Len(probed) = Least(Matching)

\* two detectors of different file_ext both match, the first one decided
C1_Witness ==
    /\ GuessDone
    /\ Cardinality(Matching) >= 2
    /\ \E i \in Matching : sniff_order[i].file_ext # sniff_order[Least(Matching)].file_ext
    /\ ext = sniff_order[Least(Matching)].file_ext

----------------------------------------------------------------------------
(* C2 *)

\* sniff_order with every raising detector replaced by one returning false
RaiseAsFalse(order) ==
    [i \in DOMAIN order |->
        IF order[i].sniff = "raise"
        THEN [file_ext |-> order[i].file_ext, sniff |-> "false"]
        ELSE order[i]]

\* C2: what guess_ext returns is what it returns on the sniff_order in which
\* every raising detector is replaced by an always-false detector of the same
\* file_ext.
C2_RaiseIsNoMatch ==
    GuessDone => ext = GuessExt(file, RaiseAsFalse(sniff_order))

\* a detector raised and the chain went on to a later detector, which matched
C2_Witness ==
    /\ GuessDone
    /\ \E i \in DOMAIN sniff_order, j \in DOMAIN sniff_order :
          /\ i < j
          /\ sniff_order[i].sniff = "raise"
          /\ j = Least(Matching \cup {Len(sniff_order) + 1})
    /\ ext = sniff_order[Least(Matching)].file_ext

----------------------------------------------------------------------------
(* C3 *)

ResultIds == {"data", "tabular", "txt"} \cup {sniff_order[i].file_ext : i \in DOMAIN sniff_order}

\* C3: every call of guess_ext ends, and ends with one non-empty identifier:
\* the file_ext of a detector of sniff_order or one of data, tabular, txt.
C3_AlwaysOneResult ==
    (op.name = "guess_ext") ~> (pc = "done" /\ ext # NoResult /\ ext \in ResultIds)

\* every detector raised and the call still ended with a fallback identifier
C3_Witness ==
    /\ GuessDone
    /\ sniff_order # <<>>
    /\ \A i \in DOMAIN sniff_order : sniff_order[i].sniff = "raise"
    /\ ext \in {"data", "tabular", "txt"}

----------------------------------------------------------------------------
(* C4 *)

----------------------------------------------------------------------------
(* C5 *)

\* C5: when no detector matches, the result is the binary identifier exactly
\* when the first 61 lines, each taken as the flat sequence of its
\* characters, hold no character of code point <= 128.
C5_BinaryIffNoLowCharacter ==
    (GuessDone /\ NoMatch) =>
        LET rs == FlatRows(file)
        IN  ext = "data" <=>
                \A k \in DOMAIN rs : \A i \in DOMAIN rs[k] : rs[k][i] > BinaryThreshold

----------------------------------------------------------------------------
(* C6 *)

\* at least two rows, all of the same number (>= 2) of tab-separated fields
UniformTabRows(f) ==
    LET rs == Rows(f, TAB)
    IN  /\ Len(rs) >= 2
        /\ Len(rs[1]) >= 2
        /\ \A k \in DOMAIN rs : Len(rs[k]) = Len(rs[1])

\* C6 as stated: such a file that no detector matches is tabular.
C6_Original ==
    (GuessDone /\ NoMatch /\ UniformTabRows(file)) => ext = "tabular"

\* C6 (amended): such a file, when one of its rows after the first (within
\* the header block) has a non-empty first field that does not start with
\* '#', and no detector matches, is tabular, unless every
\* whitespace-separated word of the header block is a single character of
\* code point > 128, and then it is data.
C6_UniformTabIsTabular ==
    ( /\ GuessDone /\ NoMatch /\ UniformTabRows(file)
      /\ QualifyingRows(BlockRows(file, TAB), 1) # {} )
    => ext = IF AllWordsHigh(file) THEN "data" ELSE "tabular"

C6_Witness ==
    /\ GuessDone /\ NoMatch /\ UniformTabRows(file)
    /\ QualifyingRows(BlockRows(file, TAB), 1) # {}
    /\ LET rs == Rows(file, TAB) IN \E k \in DOMAIN rs : ~Qualifies(rs[k])
    /\ ext = "tabular"

----------------------------------------------------------------------------
(* C7 *)

\* C7: is_column_based is true exactly when, the first skip rows of the
\* header block dropped, some row qualifies, the first qualifying row has at
\* least 2 fields and every qualifying row has as many fields as it.
C7_ColumnBasedExactly ==
    (pc = "done" /\ op.name = "is_column_based") =>
        LET rows == Slice(BlockRows(file, op.sep), op.n)
            q    == QualifyingRows(BlockRows(file, op.sep), op.n)
        IN  column_based <=>
              /\ q # {}
              /\ Len(rows[Least(q)]) >= 2
              /\ \A i \in q : Len(rows[i]) = Len(rows[Least(q)])

\* true after a skip, with a non-qualifying row of another field count
C7_Witness ==
    /\ pc = "done" /\ op.name = "is_column_based"
    /\ op.n >= 1
    /\ column_based
    /\ LET rows == Slice(BlockRows(file, op.sep), op.n)
           q    == QualifyingRows(BlockRows(file, op.sep), op.n)
       IN  \E i \in (1..Len(rows)) \ q : Len(rows[i]) # Len(rows[Least(q)])

----------------------------------------------------------------------------
(* C8 *)

\* C8: the empty file, when no detector matches, is data.
C8_EmptyFileIsBinary ==
    (GuessDone /\ NoMatch /\ file = <<>>) => ext = "data"

C8_Witness ==
    /\ GuessDone /\ NoMatch /\ file = <<>>
    /\ sniff_order # <<>>
    /\ ext = "data"

----------------------------------------------------------------------------
(* C9 *)

----------------------------------------------------------------------------
(* C10 *)

\* no tab, ASCII only, and two rows (of the first 61) of different numbers
\* of whitespace-separated words
IrregularText(f) ==
    /\ \A k \in DOMAIN f : \A i \in DOMAIN f[k] : f[k][i] # TAB /\ f[k][i] < BinaryThreshold
    /\ LET rs == BlockRows(f, None)
       IN  \E j \in DOMAIN rs, k \in DOMAIN rs : Len(rs[j]) # Len(rs[k])

IrregularFields(f) ==
    LET rs == BlockRows(f, SPACE)
        q  == QualifyingRows(rs, 0)
    IN  \E j \in q, k \in q : Len(rs[j]) # Len(rs[k])

====
